---- MODULE Spec2Model ----
(***************************************************************************)
(* Model of mygpio: the GPIO register accessor (src/gpio/mem.rs, GpioMem)  *)
(* and the pin handles built on it (src/gpio/pin.rs, Pin and OutputPin).   *)
(*                                                                         *)
(* A register word is a u32; it is modelled as the set of its bit          *)
(* positions that hold 1, so that the shifts, masks and ors of the code    *)
(* are computed bit for bit and no value exceeds TLC's 32-bit integers.     *)
(***************************************************************************)
EXTENDS Integers, Sequences, FiniteSets, Bags, TLC

VARIABLES
    regs,        \* the mapped register block: word offset -> u32
    trace,       \* the register accesses issued by the last operation
    handles,     \* the bag of live Pin / OutputPin values
    last,        \* the last operation: its name, arguments and result
    e2e,         \* progress of the end-to-end scenario on pin 27 (0: not in it)
    mem_ptr,     \* what GpioMem.mem_ptr points to: "null" while no GpioMem
                 \* was made, "mapped", "MAP_FAILED" or "unmapped"
    gpio_rc,     \* the owner still holds its Rc<GpioMem> (main's gpio_rc)
    pc,          \* where main is; "lib" while the calls are a caller's
    running      \* main's flag, cleared by the Ctrl-C handler

vars == <<regs, trace, handles, last, e2e, mem_ptr, gpio_rc, pc, running>>

----------------------------------------------------------------------------
(* Bounds of the model *)

\* number of handles that can be alive at the same time
MaxHandles == 2
\* number of initial register-block contents per bank that Init draws from
NPatterns == 2

----------------------------------------------------------------------------
(* Program constants *)

MAX == 54
GPIO_MEM_REGISTERS == 58
GPFSEL0 == 0
GPSET0 == 7
GPCLR0 == 10
GPLEV0 == 13

----------------------------------------------------------------------------
(* u32 / u8 arithmetic on bit sets *)

Bits == 0 .. 31

RECURSIVE Pow2(_)
Pow2(n) == IF n = 0 THEN 1 ELSE 2 * Pow2(n - 1)

\* the u32 whose value is the number n, for n below 256 (a literal or a u8)
U32(n) == {b \in 0 .. 7 : (n \div Pow2(b)) % 2 = 1}

\* the number a u8 (bits 0..7) stands for
RECURSIVE U8Value(_)
U8Value(v) ==
    IF v = {} THEN 0
    ELSE LET b == CHOOSE x \in v : TRUE IN Pow2(b) + U8Value(v \ {b})

\* v << s on u32 (bits shifted past bit 31 are lost)
Shl(v, s) == {b + s : b \in v} \cap Bits
\* v >> s on u32
Shr(v, s) == {b - s : b \in {x \in v : x >= s}}
BitAnd(a, b) == a \cap b
BitOr(a, b) == a \cup b
BitNot(a) == Bits \ a
\* v as u8
AsU8(v) == v \cap (0 .. 7)

----------------------------------------------------------------------------
(* gpio.rs: Mode and Level *)

Mode == {"Input", "Output", "Alt0", "Alt1", "Alt2", "Alt3", "Alt4", "Alt5"}

\* the discriminants of #[repr(u8)] enum Mode
ModeDiscriminant ==
    [m \in Mode |->
        CASE m = "Input"  -> 0
          [] m = "Output" -> 1
          [] m = "Alt0"   -> 4
          [] m = "Alt1"   -> 5
          [] m = "Alt2"   -> 6
          [] m = "Alt3"   -> 7
          [] m = "Alt4"   -> 3
          [] m = "Alt5"   -> 2]

\* mode as u32
ModeAsU32(m) == U32(ModeDiscriminant[m])

\* decoding by the variant's position in the declaration
TransmuteModeOrdinal(byte) ==
    <<"Input", "Output", "Alt0", "Alt1", "Alt2", "Alt3", "Alt4", "Alt5">>
        [U8Value(byte) + 1]

\* std::mem::transmute::<u8, Mode>: the variant whose discriminant is the byte
TransmuteMode(byte) == CHOOSE m \in Mode : ModeDiscriminant[m] = U8Value(byte)

Level == {"Low", "High"}

----------------------------------------------------------------------------
(* The peripheral behind the mapping.  GPSET and GPCLR are not plain       *)
(* registers: a 1 written to a bit of GPSETn / GPCLRn drives that pin high *)
(* / low, which GPLEVn then shows; a 0 written to a bit does nothing.      *)
(* Every other word stores what is written to it.                          *)

Offsets == 0 .. (GPIO_MEM_REGISTERS - 1)

HwStore(r, offset, value) ==
    IF offset \in {GPSET0, GPSET0 + 1}
    THEN [r EXCEPT ![GPLEV0 + (offset - GPSET0)] = @ \cup value]
    ELSE IF offset \in {GPCLR0, GPCLR0 + 1}
    THEN [r EXCEPT ![GPLEV0 + (offset - GPCLR0)] = @ \ value]
    ELSE [r EXCEPT ![offset] = value]

----------------------------------------------------------------------------
(* gpio/mem.rs: GpioMem.  g is the mapping: g.regs the register block and  *)
(* g.trace the accesses issued so far by the running operation.            *)

\* GpioMem::read: a volatile read of the word at offset
read(g, offset) ==
    [val |-> g.regs[offset],
     g   |-> [g EXCEPT !.trace = Append(@, [kind |-> "read", offset |-> offset,
                                            value |-> g.regs[offset]])]]

\* GpioMem::write: a volatile write of the word at offset
write(g, offset, value) ==
    [regs  |-> HwStore(g.regs, offset, value),
     trace |-> Append(g.trace, [kind |-> "write", offset |-> offset,
                                value |-> value])]

\* GpioMem::mode: `offset` is computed and not used; the word read is word 0
mode(g, pin) ==
    LET offset    == pin \div 10
        r         == read(g, 0)
        reg_value == r.val
        shift     == (pin % 10) * 3
    IN  [val |-> TransmuteMode(BitAnd(AsU8(Shr(reg_value, shift)), U32(7))),
         g   |-> r.g]

\* set_mode with the pin number itself as the word written
set_mode_pin_offset(g, pin, m) ==
    LET offset    == pin
        r         == read(g, 0)
        reg_value == r.val
        shift     == (pin % 10) * 3
    IN  write(r.g, offset,
              BitOr(BitAnd(reg_value, BitNot(Shl(U32(7), shift))),
                    Shl(ModeAsU32(m), shift)))

\* GpioMem::set_mode: reads word 0, writes word pin / 10
set_mode(g, pin, m) ==
    LET offset    == pin \div 10
        r         == read(g, 0)
        reg_value == r.val
        shift     == (pin % 10) * 3
    IN  write(r.g, offset,
              BitOr(BitAnd(reg_value, BitNot(Shl(U32(7), shift))),
                    Shl(ModeAsU32(m), shift)))

\* set_low as a read-modify-write of the clear word
set_low_rmw(g, pin) ==
    LET offset == GPCLR0 + (pin \div 32)
        shift  == pin % 32
        r      == read(g, offset)
    IN  write(r.g, offset, BitOr(r.val, Shl(U32(1), shift)))

\* GpioMem::set_low
set_low(g, pin) ==
    LET offset == GPCLR0 + (pin \div 32)
        shift  == pin % 32
        value  == Shl(U32(1), shift)
    IN  write(g, offset, value)

\* set_high with the bit position taken within a function-select word
set_high_shift10(g, pin) ==
    LET offset == GPSET0 + (pin \div 32)
        shift  == pin % 10
    IN  write(g, offset, Shl(U32(1), shift))

\* GpioMem::set_high
set_high(g, pin) ==
    LET offset == GPSET0 + (pin \div 32)
        shift  == pin % 32
    IN  write(g, offset, Shl(U32(1), shift))

\* level(pin) of the Register Map: High / Low from bit pin % 32 of the
\* level-bank word GPLEV0 + pin / 32
level(g, pin) ==
    LET r == read(g, GPLEV0 + (pin \div 32))
    IN  [val |-> IF (pin % 32) \in r.val THEN "High" ELSE "Low",
         g   |-> r.g]

----------------------------------------------------------------------------
(* gpio/pin.rs: Pin and OutputPin.  A handle is a record of the struct's   *)
(* fields; an OutputPin record also carries `entry`, which is no field of  *)
(* the struct: it remembers the pin's function-select field at the moment  *)
(* into_output was called, for the properties that speak of it.            *)

\* the function-select field of pin q in block r: the 3 bits at offset
\* (q % 10) * 3 of word q / 10
Field(r, q) ==
    TransmuteMode(BitAnd(Shr(r[GPFSEL0 + (q \div 10)], (q % 10) * 3), U32(7)))

\* Pin::new: builds the handle; nothing is looked up and nothing can fail
Pin_new(pin) == [kind |-> "Pin", pin |-> pin]

\* OutputPin::new: h is the OutputPin built and g the mapping afterwards
OutputPin_new(g, pin) ==
    LET r         == mode(g, pin.pin)
        prev_mode == r.val
        entry     == Field(g.regs, pin.pin)
    IN  IF prev_mode = "Output"
        THEN [h |-> [kind |-> "OutputPin", pin |-> pin.pin,
                     prev_mode |-> "None", reset_on_drop |-> TRUE,
                     entry |-> entry],
              g |-> r.g]
        ELSE [h |-> [kind |-> "OutputPin", pin |-> pin.pin,
                     prev_mode |-> prev_mode, reset_on_drop |-> TRUE,
                     entry |-> entry],
              g |-> set_mode(r.g, pin.pin, "Output")]

\* impl Drop for OutputPin: the mapping after drop(&mut self)
OutputPin_drop(g, h) ==
    IF ~h.reset_on_drop
    THEN g
    ELSE IF h.prev_mode # "None"
    THEN set_mode(g, h.pin, h.prev_mode)
    ELSE g

----------------------------------------------------------------------------
(* Initial register contents *)

\* the discriminants a function-select pattern cycles through: all eight,
\* neighbours different
PatternCodes == <<5, 2, 7, 0, 1, 6, 3, 1, 4, 2>>

\* a function-select word: field j holds PatternCodes rotated by k
FselPattern(k) ==
    UNION {Shl(U32(PatternCodes[((j + k) % 10) + 1]), 3 * j) : j \in 0 .. 9}

\* a level word in which neighbouring pins differ
LevPattern(k) == {b \in Bits : (b + k) % 2 = 0}

InitRegs(a, b) ==
    [w \in Offsets |->
        IF w = GPFSEL0 THEN FselPattern(a)
        ELSE IF w \in (GPFSEL0 + 1) .. (GPFSEL0 + 5) THEN FselPattern(b + w + 4)
        ELSE IF w \in {GPLEV0, GPLEV0 + 1} THEN LevPattern(a + b)
        ELSE {}]

\* the pins the handle layer is exercised on: the pin of main (3, whose
\* function-select field is in word 0) and a pin of another word (27)
HandlePins == {3, 27}

\* what `last` records of an operation
Op(op, pin, m, flag, ret) ==
    [op |-> op, pin |-> pin, mode |-> m, flag |-> flag, ret |-> ret]

\* the mapping as an operation finds it
Mem == [regs |-> regs, trace |-> <<>>]

\* the live handles, and those of pin p
Live == BagToSet(handles)
HandlesOf(p) == {h \in Live : h.pin = p}
\* the number of live handles of pin p
NumHandlesOf(p) ==
    LET hs == HandlesOf(p)
    IN  IF hs = {} THEN 0
        ELSE BagCardinality([h \in hs |-> CopiesIn(h, handles)])

\* the bag hs with one copy of h replaced by n / taken out
Replace(hs, h, n) == (hs (-) SetToBag({h})) (+) SetToBag({n})
Remove(hs, h) == hs (-) SetToBag({h})

Init ==
    /\ \E a, b \in 0 .. (NPatterns - 1) : regs = InitRegs(a, b)
    /\ trace = <<>>
    /\ handles = EmptyBag
    /\ last = Op("init", 0, "None", FALSE, "None")
    /\ e2e = 0
    /\ mem_ptr = "mapped"
    /\ gpio_rc = TRUE
    /\ pc = "lib"
    /\ running = TRUE

----------------------------------------------------------------------------
(* The handle layer: one action per operation on a handle *)

\* Pin::new(p, gpio_mem.clone())
PinNew(p) ==
    /\ gpio_rc
    /\ BagCardinality(handles) < MaxHandles
    /\ handles' = handles (+) SetToBag({Pin_new(p)})
    /\ last' = Op("new", p, "None", HandlesOf(p) # {}, "Ok")
    /\ trace' = <<>>
    /\ UNCHANGED regs
    /\ e2e' = IF handles = EmptyBag /\ p = 27 /\ Field(regs, 27) = "Input"
              THEN 1 ELSE 0
    /\ UNCHANGED <<mem_ptr, gpio_rc>>
    /\ UNCHANGED <<pc, running>>

\* Pin::into_output
IntoOutput(h) ==
    /\ h.kind = "Pin"
    /\ mem_ptr = "mapped"
    /\ LET o == OutputPin_new(Mem, h)
       IN  /\ handles' = Replace(handles, h, o.h)
           /\ regs' = o.g.regs
           /\ trace' = o.g.trace
           /\ last' = Op("into_output", h.pin, o.h.prev_mode, TRUE, o.h.entry)
    /\ e2e' = IF e2e = 1 THEN 2 ELSE 0
    /\ UNCHANGED <<mem_ptr, gpio_rc>>
    /\ UNCHANGED <<pc, running>>

\* OutputPin::set_high
SetHigh(h) ==
    /\ h.kind = "OutputPin"
    /\ mem_ptr = "mapped"
    /\ LET g == set_high(Mem, h.pin)
       IN  regs' = g.regs /\ trace' = g.trace
    /\ last' = Op("set_high", h.pin, "None", FALSE, "None")
    /\ UNCHANGED handles
    /\ e2e' = IF e2e = 2 THEN 3 ELSE 0
    /\ UNCHANGED <<mem_ptr, gpio_rc>>
    /\ UNCHANGED <<pc, running>>

\* OutputPin::set_low
SetLow(h) ==
    /\ h.kind = "OutputPin"
    /\ mem_ptr = "mapped"
    /\ LET g == set_low(Mem, h.pin)
       IN  regs' = g.regs /\ trace' = g.trace
    /\ last' = Op("set_low", h.pin, "None", FALSE, "None")
    /\ UNCHANGED handles
    /\ e2e' = 0
    /\ UNCHANGED <<mem_ptr, gpio_rc>>
    /\ UNCHANGED <<pc, running>>

\* OutputPin::set_reset_on_drop
SetResetOnDrop(h, reset_on_drop) ==
    /\ h.kind = "OutputPin"
    /\ handles' = Replace(handles, h, [h EXCEPT !.reset_on_drop = reset_on_drop])
    /\ last' = Op("set_reset_on_drop", h.pin, "None", reset_on_drop, "None")
    /\ trace' = <<>>
    /\ UNCHANGED regs
    /\ e2e' = 0
    /\ UNCHANGED <<mem_ptr, gpio_rc>>
    /\ UNCHANGED <<pc, running>>

\* an OutputPin goes out of scope: Drop::drop runs, then the value is gone
DropOutputPin(h) ==
    /\ h.kind = "OutputPin"
    /\ mem_ptr = "mapped"
    /\ LET g == OutputPin_drop(Mem, h)
       IN  regs' = g.regs /\ trace' = g.trace
    /\ handles' = Remove(handles, h)
    /\ last' = Op("drop", h.pin, h.prev_mode, h.reset_on_drop, h.entry)
    /\ e2e' = IF e2e = 3 THEN 4 ELSE 0
    /\ UNCHANGED <<mem_ptr, gpio_rc>>
    /\ UNCHANGED <<pc, running>>

\* a Pin goes out of scope: Pin has no Drop, the value is gone
DropPin(h) ==
    /\ h.kind = "Pin"
    /\ handles' = Remove(handles, h)
    /\ last' = Op("drop_pin", h.pin, "None", FALSE, "None")
    /\ trace' = <<>>
    /\ UNCHANGED regs
    /\ e2e' = 0
    /\ UNCHANGED <<mem_ptr, gpio_rc>>
    /\ UNCHANGED <<pc, running>>

Next ==
    \/ \E p \in HandlePins : PinNew(p)
    \/ \E h \in Live : IntoOutput(h)
    \/ \E h \in Live : SetHigh(h)
    \/ \E h \in Live : SetLow(h)
    \/ \E h \in Live, b \in BOOLEAN : SetResetOnDrop(h, b)
    \/ \E h \in Live : DropOutputPin(h)
    \/ \E h \in Live : DropPin(h)

Spec == Init /\ [][Next]_vars

----------------------------------------------------------------------------
(* The handle layer on pin numbers past the platform's last pin: Pin::new  *)
(* takes any u8.                                                           *)

RangePins == {MAX, 255}

NextRange ==
    \/ \E p \in RangePins : PinNew(p)
    \/ \E h \in Live : IntoOutput(h)
    \/ \E h \in Live : SetHigh(h)
    \/ \E h \in Live : SetLow(h)
    \/ \E h \in Live, b \in BOOLEAN : SetResetOnDrop(h, b)
    \/ \E h \in Live : DropOutputPin(h)
    \/ \E h \in Live : DropPin(h)

SpecRange == Init /\ [][NextRange]_vars

----------------------------------------------------------------------------
(* The register layer alone: one operation of GpioMem applied to a pin of  *)
(* the platform and to an initial register block.                          *)

Pins == 0 .. (MAX - 1)

MemSetMode(p, m) ==
    /\ last.op = "init"
    /\ LET g == set_mode(Mem, p, m)
       IN  regs' = g.regs /\ trace' = g.trace
    /\ last' = Op("set_mode", p, m, FALSE, "None")
    /\ UNCHANGED <<handles, e2e, mem_ptr, gpio_rc>>
    /\ UNCHANGED <<pc, running>>

MemMode(p) ==
    /\ last.op = "init"
    /\ LET r == mode(Mem, p)
       IN  /\ regs' = r.g.regs /\ trace' = r.g.trace
           /\ last' = Op("mode", p, "None", FALSE, r.val)
    /\ UNCHANGED <<handles, e2e, mem_ptr, gpio_rc>>
    /\ UNCHANGED <<pc, running>>

MemSetHigh(p) ==
    /\ last.op = "init"
    /\ LET g == set_high(Mem, p)
       IN  regs' = g.regs /\ trace' = g.trace
    /\ last' = Op("set_high", p, "None", FALSE, "None")
    /\ UNCHANGED <<handles, e2e, mem_ptr, gpio_rc>>
    /\ UNCHANGED <<pc, running>>

MemSetLow(p) ==
    /\ last.op = "init"
    /\ LET g == set_low(Mem, p)
       IN  regs' = g.regs /\ trace' = g.trace
    /\ last' = Op("set_low", p, "None", FALSE, "None")
    /\ UNCHANGED <<handles, e2e, mem_ptr, gpio_rc>>
    /\ UNCHANGED <<pc, running>>

MemLevel(p) ==
    /\ last.op = "init"
    /\ LET r == level(Mem, p)
       IN  /\ regs' = r.g.regs /\ trace' = r.g.trace
           /\ last' = Op("level", p, "None", FALSE, r.val)
    /\ UNCHANGED <<handles, e2e, mem_ptr, gpio_rc>>
    /\ UNCHANGED <<pc, running>>

MemNext ==
    \/ \E p \in Pins, m \in Mode : MemSetMode(p, m)
    \/ \E p \in Pins : MemMode(p)
    \/ \E p \in Pins : MemSetHigh(p)
    \/ \E p \in Pins : MemSetLow(p)
    \/ \E p \in Pins : MemLevel(p)

SpecMem == Init /\ [][MemNext]_vars

----------------------------------------------------------------------------
(* Two calls of set_mode on one mapping, on different pins of the same     *)
(* function-select word.  GpioMem holds a raw pointer and the handles an   *)
(* Rc, so neither can be sent to or shared with another thread and no lock *)
(* exists: the two calls run one after the other, in either order.         *)

MemSetModeAfter(q, m) ==
    /\ last.op = "set_mode"
    /\ q # last.pin
    /\ q \div 10 = last.pin \div 10
    /\ LET g == set_mode(Mem, q, m)
       IN  regs' = g.regs /\ trace' = g.trace
    /\ last' = [op |-> "set_mode_after", pin |-> q, mode |-> m, flag |-> FALSE,
                ret |-> "None", first |-> last]
    /\ UNCHANGED <<handles, e2e, mem_ptr, gpio_rc>>
    /\ UNCHANGED <<pc, running>>

PairNext ==
    \/ \E p \in Pins, m \in Mode : MemSetMode(p, m)
    \/ \E q \in Pins, m \in Mode : MemSetModeAfter(q, m)

SpecPair == Init /\ [][PairNext]_vars

----------------------------------------------------------------------------
(* The register layer over every pin number its u8 parameter admits: the   *)
(* handle layer passes the number down without bounding it.                *)

U8Pins == 0 .. 255

MemU8Next ==
    \/ \E p \in U8Pins, m \in Mode : MemSetMode(p, m)
    \/ \E p \in U8Pins : MemMode(p)
    \/ \E p \in U8Pins : MemSetHigh(p)
    \/ \E p \in U8Pins : MemSetLow(p)

SpecMemU8 == Init /\ [][MemU8Next]_vars

----------------------------------------------------------------------------
(* Opening the device: GpioMem::open and GpioMem::map_devgpiomem, the      *)
(* Rc<GpioMem> of main, and the handles made from it.                      *)

\* what OpenOptions::open(PATH_DEV_GPIOMEM) can return
FileResults == {"Ok", "ENOENT", "EACCES"}

\* what libc::mmap can return: a mapping of the block, or MAP_FAILED
MmapResults == {"mapped", "MAP_FAILED"}

\* GpioMem::map_devgpiomem: `?` turns a failed open into Err(Error::Io) by
\* From<io::Error>; the value mmap returns is cast and returned in Ok
\* without being compared with MAP_FAILED
map_devgpiomem(file, mmap) ==
    IF file # "Ok"
    THEN [ok |-> FALSE, err |-> "Io", ptr |-> "null"]
    ELSE [ok |-> TRUE, err |-> "None", ptr |-> mmap]

\* GpioMem::open: Ok(GpioMem { mem_ptr, .. }) or Err(Error::Io(last_os_error()))
GpioMem_open(file, mmap) ==
    LET r == map_devgpiomem(file, mmap)
    IN  IF r.ok
        THEN [ret |-> "Ok", mem_ptr |-> r.ptr]
        ELSE [ret |-> "Io", mem_ptr |-> "null"]

\* the strong count of the Rc<GpioMem>: the owner's Rc and one per handle
StrongCount == (IF gpio_rc THEN 1 ELSE 0) + BagCardinality(handles)

InitOpen ==
    /\ \E a, b \in 0 .. (NPatterns - 1) : regs = InitRegs(a, b)
    /\ trace = <<>>
    /\ handles = EmptyBag
    /\ last = Op("init", 0, "None", FALSE, "None")
    /\ e2e = 0
    /\ mem_ptr = "null"
    /\ gpio_rc = FALSE
    /\ pc = "lib"
    /\ running = TRUE

\* main: GpioMem::open() and, if Ok, Rc::new(gpio_mem)
Open(file, mmap) ==
    /\ mem_ptr = "null"
    /\ LET r == GpioMem_open(file, mmap)
       IN  /\ mem_ptr' = r.mem_ptr
           /\ gpio_rc' = (r.ret = "Ok")
           /\ last' = [op |-> "open", pin |-> 0, mode |-> "None",
                       flag |-> FALSE, ret |-> r.ret, file |-> file,
                       mmap |-> IF file = "Ok" THEN mmap ELSE "not called"]
    /\ trace' = <<>>
    /\ e2e' = 0
    /\ UNCHANGED <<regs, handles>>
    /\ UNCHANGED <<pc, running>>

\* Pin::new(p, gpio_rc): the owner's Rc is moved into the Pin, as in main
PinNewMove(p) ==
    /\ gpio_rc
    /\ BagCardinality(handles) < MaxHandles
    /\ handles' = handles (+) SetToBag({Pin_new(p)})
    /\ gpio_rc' = FALSE
    /\ last' = Op("new", p, "None", HandlesOf(p) # {}, "Ok")
    /\ trace' = <<>>
    /\ e2e' = 0
    /\ UNCHANGED <<regs, mem_ptr>>
    /\ UNCHANGED <<pc, running>>

\* the owner's Rc goes out of scope.  GpioMem has no Drop and nothing calls
\* munmap: when the count reaches 0 the value is gone and the mapping stays
DropRc ==
    /\ gpio_rc
    /\ gpio_rc' = FALSE
    /\ last' = Op("drop_rc", 0, "None", FALSE, "None")
    /\ trace' = <<>>
    /\ e2e' = 0
    /\ UNCHANGED <<regs, handles, mem_ptr>>
    /\ UNCHANGED <<pc, running>>

\* A volatile access through mem_ptr = MAP_FAILED is undefined behaviour.
\* The access is volatile, so the build issues it: the first one of a handle
\* is the read of mode() at address usize::MAX, which is misaligned and
\* mapped in no process.  The build ends the process there, by the signal
\* or, with the pointer checks of a debug build, by an abort; no drop runs.
KillResults == {"SIGSEGV", "abort"}

Killed(h, how) ==
    /\ handles' = EmptyBag
    /\ gpio_rc' = FALSE
    /\ last' = Op(how, h.pin, "None", FALSE, "None")
    /\ trace' = <<>>
    /\ e2e' = 0
    /\ UNCHANGED <<regs, mem_ptr>>
    /\ UNCHANGED <<pc, running>>

\* Pin::into_output through MAP_FAILED
InvalidIntoOutput(h, how) ==
    /\ h.kind = "Pin"
    /\ mem_ptr = "MAP_FAILED"
    /\ Killed(h, how)

NextOpen ==
    \/ \E file \in FileResults, mmap \in MmapResults : Open(file, mmap)
    \/ \E p \in HandlePins : PinNew(p)
    \/ \E p \in HandlePins : PinNewMove(p)
    \/ DropRc
    \/ \E h \in Live : IntoOutput(h)
    \/ \E h \in Live : SetHigh(h)
    \/ \E h \in Live : SetLow(h)
    \/ \E h \in Live, b \in BOOLEAN : SetResetOnDrop(h, b)
    \/ \E h \in Live : DropOutputPin(h)
    \/ \E h \in Live : DropPin(h)
    \/ \E h \in Live, how \in KillResults : InvalidIntoOutput(h, how)

SpecOpen == InitOpen /\ [][NextOpen]_vars

\* every operation is a call of the one thread: a call that can be made is
\* not postponed for ever
SpecOpenLive == InitOpen /\ [][NextOpen]_vars /\ WF_vars(NextOpen)

----------------------------------------------------------------------------
(* main.rs: the program.  pc is the statement main is at; the Ctrl-C       *)
(* handler runs on its own thread and only stores false into `running`.    *)

\* the pin of main
MainPin == 3

\* the statements of the while loop
LoopPcs == {"while", "set_high", "sleep_on", "set_low", "sleep_off"}

\* every rotation of the pattern in word 0: pin 3 starts in each of the modes
InitMain ==
    /\ \E a \in 0 .. (Len(PatternCodes) - 1), b \in 0 .. (NPatterns - 1) :
           regs = InitRegs(a, b)
    /\ trace = <<>>
    /\ handles = EmptyBag
    /\ last = Op("init", 0, "None", FALSE, "None")
    /\ e2e = 0
    /\ mem_ptr = "null"
    /\ gpio_rc = FALSE
    /\ pc = "start"
    /\ running = TRUE

\* running = true, ctrlc::set_handler(..).expect(..), DeviceInfo::new() and
\* dev_info.unwrap(): an Err of either panics before the device is opened
MainStart(setup) ==
    /\ pc = "start"
    /\ pc' = IF setup = "Ok" THEN "open" ELSE "panicked"
    /\ UNCHANGED <<regs, trace, handles, last, e2e, mem_ptr, gpio_rc, running>>

\* the handler installed by main: r.store(false)
CtrlC ==
    /\ pc \notin {"start", "done", "panicked", "killed"}
    /\ running
    /\ running' = FALSE
    /\ UNCHANGED <<regs, trace, handles, last, e2e, mem_ptr, gpio_rc, pc>>

\* if let Ok(gpio_mem) = GpioMem::open() { Rc::new(gpio_mem) .. } else
\* { println!("ERROR ..") }
MainOpen(file, mmap) ==
    /\ pc = "open"
    /\ LET r == GpioMem_open(file, mmap)
       IN  /\ mem_ptr' = r.mem_ptr
           /\ gpio_rc' = (r.ret = "Ok")
           /\ last' = [op |-> "open", pin |-> 0, mode |-> "None",
                       flag |-> FALSE, ret |-> r.ret, file |-> file,
                       mmap |-> IF file = "Ok" THEN mmap ELSE "not called"]
           /\ pc' = IF r.ret = "Ok" THEN "into_output" ELSE "done"
    /\ trace' = <<>>
    /\ UNCHANGED <<regs, handles, e2e, running>>

\* let mut out_pin3 = Pin::new(3, gpio_rc).into_output()
MainIntoOutput ==
    /\ pc = "into_output"
    /\ mem_ptr = "mapped"
    /\ LET o == OutputPin_new(Mem, Pin_new(MainPin))
       IN  /\ handles' = SetToBag({o.h})
           /\ regs' = o.g.regs
           /\ trace' = o.g.trace
           /\ last' = Op("into_output", MainPin, o.h.prev_mode, TRUE, o.h.entry)
    /\ gpio_rc' = FALSE
    /\ pc' = "while"
    /\ UNCHANGED <<e2e, mem_ptr, running>>

\* the same statement through MAP_FAILED: the process ends at the read
MainInvalidIntoOutput(how) ==
    /\ pc = "into_output"
    /\ mem_ptr = "MAP_FAILED"
    /\ gpio_rc' = FALSE
    /\ last' = Op(how, MainPin, "None", FALSE, "None")
    /\ trace' = <<>>
    /\ pc' = "killed"
    /\ UNCHANGED <<regs, handles, e2e, mem_ptr, running>>

\* a loop that does not test the flag
MainWhileTrue ==
    /\ pc = "while"
    /\ pc' = "set_high"
    /\ UNCHANGED <<regs, trace, handles, last, e2e, mem_ptr, gpio_rc, running>>

\* while running.load(Ordering::SeqCst)
MainWhile ==
    /\ pc = "while"
    /\ pc' = IF running THEN "set_high" ELSE "drop"
    /\ UNCHANGED <<regs, trace, handles, last, e2e, mem_ptr, gpio_rc, running>>

\* println!("led on"); out_pin3.set_high()
MainSetHigh ==
    /\ pc = "set_high"
    /\ \E h \in Live :
           /\ LET g == set_high(Mem, h.pin)
              IN  regs' = g.regs /\ trace' = g.trace
           /\ last' = Op("set_high", h.pin, "None", FALSE, "None")
    /\ pc' = "sleep_on"
    /\ UNCHANGED <<handles, e2e, mem_ptr, gpio_rc, running>>

\* thread::sleep(Duration::from_millis(2000)): returns
MainSleep ==
    /\ pc \in {"sleep_on", "sleep_off"}
    /\ pc' = IF pc = "sleep_on" THEN "set_low" ELSE "while"
    /\ UNCHANGED <<regs, trace, handles, last, e2e, mem_ptr, gpio_rc, running>>

\* out_pin3.set_low(); println!("led off")
MainSetLow ==
    /\ pc = "set_low"
    /\ \E h \in Live :
           /\ LET g == set_low(Mem, h.pin)
              IN  regs' = g.regs /\ trace' = g.trace
           /\ last' = Op("set_low", h.pin, "None", FALSE, "None")
    /\ pc' = "sleep_off"
    /\ UNCHANGED <<handles, e2e, mem_ptr, gpio_rc, running>>

\* the end of the if-let block: out_pin3 goes out of scope, Drop::drop runs;
\* the last Rc<GpioMem> goes with it and the mapping stays
MainDrop ==
    /\ pc = "drop"
    /\ \E h \in Live :
           /\ LET g == OutputPin_drop(Mem, h)
              IN  regs' = g.regs /\ trace' = g.trace
           /\ handles' = Remove(handles, h)
           /\ last' = Op("drop", h.pin, h.prev_mode, h.reset_on_drop, h.entry)
    /\ pc' = "done"
    /\ UNCHANGED <<e2e, mem_ptr, gpio_rc, running>>

\* the steps of the main thread
MainThread ==
    \/ \E setup \in {"Ok", "Err"} : MainStart(setup)
    \/ \E file \in FileResults, mmap \in MmapResults : MainOpen(file, mmap)
    \/ MainIntoOutput
    \/ \E how \in KillResults : MainInvalidIntoOutput(how)
    \/ MainWhile
    \/ MainSetHigh
    \/ MainSleep
    \/ MainSetLow
    \/ MainDrop

NextMain == MainThread \/ CtrlC

\* the main thread is scheduled: a statement it can execute is executed.
\* Nothing is assumed about Ctrl-C being pressed.
SpecMain == InitMain /\ [][NextMain]_vars /\ WF_vars(MainThread)

----------------------------------------------------------------------------
(* Properties *)

\* the accesses of `trace` that write a function-select word
FselWrites ==
    {i \in 1 .. Len(trace) :
        trace[i].kind = "write" /\ trace[i].offset \in GPFSEL0 .. (GPFSEL0 + 5)}

\* C1: for every pin number there is at most one live handle (Pin or
\* OutputPin) at any time.
C1_AtMostOneHandlePerPin == \A p \in HandlePins : NumHandlesOf(p) <= 1

\* C2: claiming a pin that has a live handle returns PinNotAvailable and
\* creates no handle; claiming a pin that has none succeeds.
C2_SecondClaimRejected ==
    last.op = "new" =>
        IF last.flag
        THEN last.ret = "PinNotAvailable" /\ NumHandlesOf(last.pin) = 1
        ELSE last.ret = "Ok" /\ NumHandlesOf(last.pin) = 1

\* C3: after set_mode(p, X), for every pin p of 0..53 and every mode X, a
\* mode(p) that follows immediately returns X.
C3_SetModeThenMode ==
    last.op = "set_mode" => mode(Mem, last.pin).val = last.mode

\* C4: set_mode(p, X) leaves the function-select field of every other pin
\* q # p as it was.
C4_SetModeKeepsOtherPins ==
    [][\A p \in Pins, m \in Mode :
          MemSetMode(p, m) =>
              \A q \in Pins \ {p} : Field(regs', q) = Field(regs, q)]_vars

\* C5: if the pin's function-select field was M # Output when into_output was
\* called, then after the OutputPin is released the field is M when restore
\* on release was enabled, and Output when it was disabled.
C5_ReleaseRestoresEntryMode ==
    (last.op = "drop" /\ last.ret # "Output") =>
        IF last.flag
        THEN Field(regs, last.pin) = last.ret
        ELSE Field(regs, last.pin) = "Output"

\* C6: into_output on a pin whose function-select field is already Output
\* records no previous mode and writes no register; the release of that
\* handle writes no function-select word and leaves the field Output.
C6_AlreadyOutputNoChurn ==
    /\ (last.op = "into_output" /\ last.ret = "Output") =>
           (last.mode = "None" /\ FselWrites = {})
    /\ (last.op = "drop" /\ last.ret = "Output") =>
           (FselWrites = {} /\ Field(regs, last.pin) = "Output")

\* C7: every pin that has a live OutputPin has the function-select field
\* Output (0b001).
C7_OutputHandleMeansOutputMode ==
    \A h \in Live : h.kind = "OutputPin" => Field(regs, h.pin) = "Output"

\* C8: after set_high(p) a following level(p) returns High, and after
\* set_low(p) a following level(p) returns Low, for every pin p of 0..53.
C8_SetLevelThenLevel ==
    /\ last.op = "set_high" => level(Mem, last.pin).val = "High"
    /\ last.op = "set_low" => level(Mem, last.pin).val = "Low"

\* C8 witness: set_high on pin 33, which was Low, made it High.
C8_Witness ==
    /\ last.op = "set_high" /\ last.pin = 33
    /\ regs[GPLEV0 + 1] = LevPattern(0) \cup {1}
    /\ level(Mem, 33).val = "High"

\* C9: set_high(p) issues exactly one register access, a write to word
\* GPSET0 + p / 32 of the value whose only 1 bit is bit p % 32, and set_low(p)
\* the same to word GPCLR0 + p / 32; no other pin's level changes and no
\* other word changes.
C9_SetLevelIsOneWrite ==
    [][\A p \in Pins :
          /\ MemSetHigh(p) =>
                trace' = <<[kind |-> "write", offset |-> GPSET0 + (p \div 32),
                            value |-> {p % 32}]>>
          /\ MemSetLow(p) =>
                trace' = <<[kind |-> "write", offset |-> GPCLR0 + (p \div 32),
                            value |-> {p % 32}]>>
          /\ (MemSetHigh(p) \/ MemSetLow(p)) =>
                /\ \A q \in Pins \ {p} :
                      level([regs |-> regs', trace |-> <<>>], q).val
                          = level(Mem, q).val
                /\ \A w \in Offsets \ {GPLEV0 + (p \div 32)} :
                      regs'[w] = regs[w]]_vars

\* C9 witness: set_low on pin 32 was one write to GPCLR1 of bit 0, and pin 32,
\* which was High, is Low while its neighbour pin 34 is still High.
C9_Witness ==
    /\ last.op = "set_low" /\ last.pin = 32
    /\ trace = <<[kind |-> "write", offset |-> GPCLR0 + 1, value |-> {0}]>>
    /\ regs[GPLEV0 + 1] = LevPattern(0) \ {0}
    /\ level(Mem, 34).val = "High"

\* C10: starting with pin 27 in Input mode: claim pin 27, into_output,
\* set_high, then level(27) is High; after the OutputPin is released,
\* mode(27) is Input.
C10_EndToEndPin27 ==
    /\ e2e = 3 => level(Mem, 27).val = "High"
    /\ e2e = 4 => mode(Mem, 27).val = "Input"

\* C11: releasing an OutputPin always releases the pin's claim, whatever
\* the restore flag and the recorded previous mode: after the release no
\* handle of the pin is left and the pin can be claimed again.
C11_ReleaseFreesPin ==
    last.op = "drop" =>
        (HandlesOf(last.pin) = {} /\ ENABLED PinNew(last.pin))

\* C12: a pin number >= 54 is rejected with PinNotAvailable when the handle
\* is requested, and no operation accesses a register with such a pin number.
C12_OutOfRangeRejected ==
    last.pin >= MAX =>
        /\ last.op = "new" => last.ret = "PinNotAvailable"
        /\ trace = <<>>

\* C13: when two callers each call set_mode on different pins that share a
\* function-select word, in either order, both pins end with the mode their
\* call wrote.
C13_NoLostModeUpdate ==
    last.op = "set_mode_after" =>
        /\ Field(regs, last.first.pin) = last.first.mode
        /\ Field(regs, last.pin) = last.mode

\* C14: mode encoding and decoding are inverse over the whole table
\* Input=0b000, Output=0b001, Alt5=0b010, Alt4=0b011, Alt0=0b100, Alt1=0b101,
\* Alt2=0b110, Alt3=0b111: decoding the 3 bits set_mode writes for m gives m,
\* and encoding the mode that mode() decodes from 3 bits gives those bits.
C14_ModeRoundTrip ==
    /\ ModeDiscriminant =
           [m \in Mode |->
               CASE m = "Input" -> 0 [] m = "Output" -> 1 [] m = "Alt5" -> 2
                 [] m = "Alt4" -> 3 [] m = "Alt0" -> 4 [] m = "Alt1" -> 5
                 [] m = "Alt2" -> 6 [] m = "Alt3" -> 7]
    /\ last.op = "set_mode" =>
           TransmuteMode(BitAnd(AsU8(Shr(trace[2].value, (last.pin % 10) * 3)),
                                U32(7))) = last.mode
    /\ last.op = "mode" =>
           ModeAsU32(last.ret)
               = BitAnd(Shr(trace[1].value, (last.pin % 10) * 3), U32(7))

\* C14 witness: mode() decoded the bits 0b011 as Alt4.
C14_Witness ==
    /\ last.op = "mode" /\ last.ret = "Alt4"
    /\ BitAnd(Shr(trace[1].value, (last.pin % 10) * 3), U32(7)) = {0, 1}

\* C18: for every pin p in 0..53 and every register block, mode(p) returns
\* the mode encoded by the 3-bit field at bit offset (p % 10) * 3 of word
\* GPFSEL0 + p / 10, and reads that word and no other.
C18_ModeReadsOwnWord ==
    last.op = "mode" =>
        /\ last.ret = Field(regs, last.pin)
        /\ trace = << [kind   |-> "read",
                       offset |-> GPFSEL0 + (last.pin \div 10),
                       value  |-> regs[GPFSEL0 + (last.pin \div 10)]] >>

\* C19: set_mode(p, m) is one read-modify-write of a single word: it reads
\* word GPFSEL0 + p / 10 and writes to that same word the value read with
\* only the 3 bits at (p % 10) * 3 replaced by the encoding of m; nothing
\* else is accessed.
C19_SetModeIsOneWordRmw ==
    last.op = "set_mode" =>
        LET shift == (last.pin % 10) * 3
        IN  /\ Len(trace) = 2
            /\ trace[1].kind = "read"
            /\ trace[1].offset = GPFSEL0 + (last.pin \div 10)
            /\ trace[2].kind = "write"
            /\ trace[2].offset = trace[1].offset
            /\ trace[2].value
                   = (trace[1].value \ {shift, shift + 1, shift + 2})
                         \cup Shl(ModeAsU32(last.mode), shift)

\* C20: every read or write issued by mode, set_mode, set_high and set_low
\* uses a word offset strictly below the mapped window of GPIO_MEM_REGISTERS
\* (58) words, for every pin number 0..255.
C20_AccessesInsideWindow ==
    \A i \in 1 .. Len(trace) :
        trace[i].offset >= 0 /\ trace[i].offset < GPIO_MEM_REGISTERS

\* C20 witness: the largest offsets are reached with pin 255: set_mode wrote
\* word 25 or set_low wrote word 17.
C20_Witness ==
    /\ last.pin = 255
    /\ \/ last.op = "set_mode" /\ trace[2].offset = 25
       \/ last.op = "set_low" /\ trace[1].offset = GPCLR0 + 7

\* C15: open returns an error, and no GpioMem, whenever the device file
\* cannot be opened or the mapping call fails; a GpioMem exists only with a
\* pointer to a valid mapping.
C15_OpenFailsWithoutMapping ==
    /\ last.op = "open" /\ (last.file # "Ok" \/ last.mmap = "MAP_FAILED")
           => last.ret # "Ok" /\ ~gpio_rc /\ mem_ptr = "null"
    /\ StrongCount > 0 => mem_ptr = "mapped"

\* C16: when opening the device path fails for lack of permission, open
\* returns PermissionDenied; the other open and mapping failures return Io.
C16_PermissionDeniedIsDistinct ==
    last.op = "open" =>
        /\ last.file = "EACCES" => last.ret = "PermissionDenied"
        /\ last.file = "ENOENT" => last.ret = "Io"

\* C17: once every Pin, every OutputPin and the owner's Rc of a mapped
\* GpioMem have been released, the mapping is eventually unmapped.
C17_MappingReleasedAtLastDrop ==
    (mem_ptr = "mapped" /\ StrongCount = 0) ~> (mem_ptr = "unmapped")

\* C21: in main's loop on pin 3, once the Ctrl-C handler has cleared
\* `running` the loop eventually exits and the OutputPin is dropped; the drop
\* writes back the mode recorded at into_output, so the field of pin 3 is
\* again what it was at into_output; and the last level write before the
\* drop is not set_high: the drop follows set_low or into_output.
C21_CtrlCExitsLoopAndRestores ==
    /\ (~running /\ pc \in LoopPcs) ~> (pc = "done" /\ handles = EmptyBag)
    /\ [][MainDrop => last.op \in {"set_low", "into_output"}]_vars
    /\ [](pc = "done" /\ last.op = "drop" =>
             /\ Field(regs, MainPin) = last.ret
             /\ last.mode # "None" =>
                    /\ last.mode = last.ret
                    /\ \E i \in FselWrites :
                           trace[i].offset = GPFSEL0 + (MainPin \div 10)
                    /\ Field(regs, MainPin) = last.mode)

\* C21 witness: Ctrl-C was pressed, the loop had driven pin 3 (high at the
\* start) low, the loop exited and the drop wrote Alt1 back.
C21_Witness ==
    /\ pc = "done" /\ ~running /\ last.op = "drop"
    /\ last.mode = "Alt1" /\ Field(regs, MainPin) = "Alt1"
    /\ MainPin \notin regs[GPLEV0]
    /\ regs[GPLEV0] \cup {MainPin} = LevPattern(1)

====
